---- MODULE Spec2Model ----
(***************************************************************************)
(* A model of aldar, a directory-tree printer (src/src/main.rs,            *)
(* src/src/aldar.rs, src/src/fsutil.rs).                                   *)
(*                                                                         *)
(* Spec      main() and Aldar::run(): the recursive walk show_dir /        *)
(*           fetch_directory / print_entry over a small file system.       *)
(* SpecSort  the comparator fetch_directory hands to sort_by.              *)
(* SpecSize  Aldar::size_as_str.                                           *)
(*                                                                         *)
(* Text is a sequence of one-character strings; the character "#" stands   *)
(* for a byte that is not valid UTF-8 (0xFF), so that OsStr::to_str()      *)
(* can fail.  A u64 is a vector of seven base-1024 limbs, least            *)
(* significant first, so that 2^40 .. 2^60 are representable.              *)
(***************************************************************************)
EXTENDS Integers, Sequences, FiniteSets, TLC

VARIABLES
    args,            \* main: the parsed command line (Args)
    fs,              \* the file system: node -> [kind, name], and the unreadable directory
    aldar,           \* the configuration fields of struct Aldar
    include_matcher, \* Aldar.include_matcher: None or a compiled pattern set
    exclude_matcher, \* Aldar.exclude_matcher
    proc_dirs,       \* Aldar.proc_dirs
    proc_files,      \* Aldar.proc_files
    indent,          \* Aldar.indent: Vec<String>
    output,          \* what has been written to Aldar.output, line by line
    stack,           \* the active calls of show_dir, outermost first; entries by node
    pc,              \* where main is: "main", "ready", "walk", "returned", "exited"
    result,          \* what the last run() returned: "none", "Ok", "Err"
    exit,            \* process exit status, -1 while running
    reported,        \* main printed an "Error:" line
    runs,            \* number of calls of run() so far
    listed,          \* history: directory -> the child list fetch_directory returned for it
    cmpIn,           \* SpecSort: three sibling entries
    cmpOut,          \* SpecSort: the vector sort_by produced from them
    szIn,            \* SpecSize: [human, a, b]: the mode and two sizes
    szOut            \* SpecSize: the two strings size_as_str produced

vars == <<args, fs, aldar, include_matcher, exclude_matcher, proc_dirs, proc_files,
          indent, output, stack, pc, result, exit, reported, runs, listed,
          cmpIn, cmpOut, szIn, szOut>>

walkVars == <<args, fs, aldar, include_matcher, exclude_matcher, proc_dirs, proc_files,
              indent, output, stack, result, exit, reported, runs, listed>>

pureVars == <<cmpIn, cmpOut, szIn, szOut>>

\* Option<T>: None, or Some(x) holding x
None == <<>>
Some(x) == <<x>>
Unwrap(o) == o[1]

(***************************************************************************)
(* Bounds of the model.                                                    *)
(***************************************************************************)
\* -L values tried: -1 (the default) .. MaxLevel
MaxLevel == 1
\* calls of run() on one Aldar value
MaxRuns == 2

(***************************************************************************)
(* Text, names and paths.                                                  *)
(***************************************************************************)
\* byte value of a character (the order Path::cmp compares names in)
Ord(c) ==
    CASE c = "." -> 46
      [] c = "/" -> 47
      [] c = "A" -> 65
      [] c = "a" -> 97
      [] c = "b" -> 98
      [] c = "h" -> 104
      [] c = "m" -> 109
      [] c = "n" -> 110
      [] c = "#" -> 255

\* OsStr::to_str() is Some
IsText(s) == \A i \in 1..Len(s) : s[i] # "#"

\* lexicographic comparison of two byte strings: "Less", "Equal", "Greater"
RECURSIVE CmpText(_, _)
CmpText(s, t) ==
    IF s = <<>> /\ t = <<>> THEN "Equal"
    ELSE IF s = <<>> THEN "Less"
    ELSE IF t = <<>> THEN "Greater"
    ELSE IF Ord(Head(s)) < Ord(Head(t)) THEN "Less"
    ELSE IF Ord(Head(s)) > Ord(Head(t)) THEN "Greater"
    ELSE CmpText(Tail(s), Tail(t))

\* Path::join on a directory path that does not end in a separator
PathJoin(dir, name) == dir \o <<"/">> \o name

(***************************************************************************)
(* Patterns.  A pattern is a literal used as a regex: [k |-> "sub"] is the *)
(* literal itself (found anywhere in the text), [k |-> "full"] is the      *)
(* literal between ^ and $, [k |-> "bad"] is text that does not compile.   *)
(***************************************************************************)
Fold(c) == IF c = "A" THEN "a" ELSE c

FoldText(s, ignore_case) == IF ignore_case THEN [i \in 1..Len(s) |-> Fold(s[i])] ELSE s

Occurs(lit, s) ==
    \E i \in 0..(Len(s) - Len(lit)) : \A j \in 1..Len(lit) : s[i + j] = lit[j]

PatMatches(p, s, ignore_case) ==
    LET t == FoldText(s, ignore_case)
        l == FoldText(p.lit, ignore_case)
    IN  IF p.k = "full" THEN t = l ELSE Occurs(l, t)

\* RegexSetBuilder::build(): Some(the compiled set), or None for Err
Build(patterns, ignore_case) ==
    IF \E p \in patterns : p.k = "bad"
    THEN None
    ELSE Some([pats |-> patterns, ci |-> ignore_case])

\* RegexSet::is_match
is_match(matcher, s) == \E p \in matcher.pats : PatMatches(p, s, matcher.ci)

(***************************************************************************)
(* u64 values: seven limbs, base 1024, least significant first.            *)
(***************************************************************************)
Limbs == 0..6

\* the u64 hi * 1024^k + lo * 1024^(k-1)
U64(hi, lo, k) ==
    [i \in Limbs |-> IF i = k THEN hi ELSE IF i = k - 1 THEN lo ELSE 0]

\* 1 << bits, for bits a multiple of 10
Shl1(bits) == U64(1, 0, bits \div 10)

\* variant of Gt: >= in place of >
Gt_OrEqual(a, b) ==
    a = b \/ \E i \in Limbs : a[i] > b[i] /\ \A j \in Limbs : j > i => a[j] = b[j]

\* a > b on u64
Gt(a, b) ==
    \E i \in Limbs : a[i] > b[i] /\ \A j \in Limbs : j > i => a[j] = b[j]

(***************************************************************************)
(* The file system.  Node 0 is the directory aldar is started on; the      *)
(* shape is fixed, what each node is varies:                               *)
(*                                                                         *)
(*     0 ─┬─ 1 ─┬─ 3 ─── 5                                                 *)
(*        │     └─ 4                                                       *)
(*        ├─ 2                                                             *)
(*        └─ 6                                                             *)
(*                                                                         *)
(* kind: "dir", "file", "linkdir" (a symbolic link to a directory),        *)
(* "other" (a fifo, a socket, a dangling link) or "err" (read_dir yields   *)
(* Err for this item).                                                     *)
(***************************************************************************)
Root == 0
Nodes == 1..6
Parent(n) == IF n \in {1, 2, 6} THEN 0 ELSE IF n \in {3, 4} THEN 1 ELSE 3

\* depth of a directory, the root being at depth 0
RECURSIVE Depth(_)
Depth(n) == IF n = Root THEN 0 ELSE 1 + Depth(Parent(n))

\* size is <<hi, lo, k>>, standing for hi * 1024^k + lo * 1024^(k-1) bytes
N(kind, name, size, exec) == [kind |-> kind, name |-> name, size |-> size, exec |-> exec]

NodeChoices(n) ==
    CASE n = 1 -> {N("dir", <<"n">>, <<4, 0, 1>>, FALSE)}
      [] n = 2 -> {N("file", <<"m", "a">>, <<10, 0, 0>>, FALSE),
                   N("file", <<"n", "a">>, <<1, 0, 2>>, TRUE),
                   N("file", <<"#">>, <<5, 0, 0>>, FALSE)}
      [] n = 3 -> {N("dir", <<"b">>, <<4, 0, 1>>, FALSE),
                   N("linkdir", <<"b">>, <<7, 0, 0>>, FALSE),
                   N("dir", <<"#">>, <<4, 0, 1>>, FALSE),
                   N("dir", <<".", "h">>, <<4, 0, 1>>, FALSE)}
      [] n = 4 -> {N("file", <<"A">>, <<1, 512, 1>>, FALSE),
                   N("file", <<".", "a">>, <<5, 0, 0>>, FALSE)}
      [] n = 5 -> {N("file", <<"a">>, <<2, 0, 1>>, TRUE)}
      [] n = 6 -> {N("other", <<"m">>, <<0, 0, 0>>, FALSE),
                   N("err", <<"m">>, <<0, 0, 0>>, FALSE)}

Trees ==
    {[n \in Nodes |-> CASE n = 1 -> c1 [] n = 2 -> c2 [] n = 3 -> c3
                        [] n = 4 -> c4 [] n = 5 -> c5 [] n = 6 -> c6] :
        c1 \in NodeChoices(1), c2 \in NodeChoices(2), c3 \in NodeChoices(3),
        c4 \in NodeChoices(4), c5 \in NodeChoices(5), c6 \in NodeChoices(6)}

\* at most one directory whose read_dir fails
Unreadables == {{}, {0}, {1}, {3}}

\* the path show_dir is started on, as path components
RootPath == <<<<".">>>>

RECURSIVE PathOf(_, _)
PathOf(t, n) == IF n = Root THEN RootPath ELSE Append(PathOf(t, Parent(n)), t[n].name)

\* a path as the text fetch_directory and is_match see
RECURSIVE PathStr(_)
PathStr(comps) ==
    IF Len(comps) = 1 THEN comps[1]
    ELSE PathJoin(PathStr(SubSeq(comps, 1, Len(comps) - 1)), comps[Len(comps)])

\* Path::to_str() is Some
PathIsText(comps) == \A i \in 1..Len(comps) : IsText(comps[i])

\* std::fs::DirEntry for node n of tree t
DirEntry(t, n) ==
    [id |-> n, kind |-> t[n].kind, name |-> t[n].name, path |-> PathOf(t, n),
     size |-> t[n].size, exec |-> t[n].exec]

\* what read_dir(d) iterates over, Err items included
ReadDir(t, d) == {DirEntry(t, n) : n \in {m \in Nodes : Parent(m) = d}}

(***************************************************************************)
(* fsutil.rs: AldarExt for DirEntry (unix).                                *)
(***************************************************************************)
is_hidden(e) == IF IsText(e.name) THEN e.name[1] = "." ELSE FALSE

\* file_type() does not follow symbolic links
is_dir(e) == e.kind = "dir"

is_executable(e) == IF e.kind = "dir" THEN FALSE ELSE e.exec

\* DirEntry::metadata().size()
size(e) == U64(e.size[1], e.size[2], e.size[3])

\* Path::is_dir and Path::is_file follow symbolic links
path_is_dir(e) == e.kind \in {"dir", "linkdir"}
path_is_file(e) == e.kind = "file"

\* Path::cmp: component by component
RECURSIVE CmpPath(_, _)
CmpPath(p, q) ==
    IF p = <<>> /\ q = <<>> THEN "Equal"
    ELSE IF p = <<>> THEN "Less"
    ELSE IF q = <<>> THEN "Greater"
    ELSE IF CmpText(Head(p), Head(q)) # "Equal" THEN CmpText(Head(p), Head(q))
    ELSE CmpPath(Tail(p), Tail(q))

(***************************************************************************)
(* aldar.rs: the comparator of fetch_directory and sort_by.                *)
(***************************************************************************)
Compare(a, b) ==
    IF path_is_dir(a) /\ path_is_file(b) THEN "Less"
    ELSE IF path_is_dir(b) /\ path_is_file(a) THEN "Greater"
    ELSE CmpPath(a.path, b.path)

Perms(S) == {p \in [1..Cardinality(S) -> S] : \A x \in S : \E i \in DOMAIN p : p[i] = x}

\* the vectors sort_by may leave: the sorted one when the comparator orders S,
\* and an unspecified order of S when it does not
SortBy(S) ==
    LET sorted == {p \in Perms(S) :
                     \A i, j \in DOMAIN p : i < j => Compare(p[i], p[j]) = "Less"}
    IN  IF sorted # {} THEN sorted ELSE Perms(S)

(***************************************************************************)
(* aldar.rs: size_as_str.  An f64 is [int, frac]: a whole part (limbs) and *)
(* frac/1024.  (sz as f64) / (UNIT as f64) is exact for every size with at *)
(* most 53 significant bits, which every size drawn here has.              *)
(***************************************************************************)
KB_SIZE == Shl1(10)
MB_SIZE == Shl1(20)
GB_SIZE == Shl1(30)
TB_SIZE == Shl1(40)
EB_SIZE == Shl1(50)
PB_SIZE == Shl1(60)

\* sz as f64
AsF64(sz) == [int |-> sz, frac |-> 0]

\* (sz as f64) / ((1 << 10k) as f64)
DivF64(sz, k) ==
    [int  |-> [i \in Limbs |-> IF i + k \in Limbs THEN sz[i + k] ELSE 0],
     frac |-> IF k > 0 THEN sz[k - 1] ELSE 0]

IsZero(v) == \A i \in Limbs : v[i] = 0

\* long division of a limb vector by ten
RECURSIVE Rem10(_, _)
Rem10(v, i) == IF i > 6 THEN 0 ELSE (Rem10(v, i + 1) * 1024 + v[i]) % 10
\* (written limb by limb, so that the quotient is computed once)
Quot10(v) ==
    0 :> ((Rem10(v, 1) * 1024 + v[0]) \div 10) @@ 1 :> ((Rem10(v, 2) * 1024 + v[1]) \div 10)
      @@ 2 :> ((Rem10(v, 3) * 1024 + v[2]) \div 10) @@ 3 :> ((Rem10(v, 4) * 1024 + v[3]) \div 10)
      @@ 4 :> ((Rem10(v, 5) * 1024 + v[4]) \div 10) @@ 5 :> ((Rem10(v, 6) * 1024 + v[5]) \div 10)
      @@ 6 :> (v[6] \div 10)

\* the decimal digits of a whole number, most significant first
RECURSIVE DecDigits(_)
DecDigits(v) == IF IsZero(v) THEN <<>> ELSE Append(DecDigits(Quot10(v)), Rem10(v, 0))

RECURSIVE DigitStr(_)
DigitStr(ds) == IF ds = <<>> THEN "" ELSE ToString(Head(ds)) \o DigitStr(Tail(ds))

DecStr(v) == IF IsZero(v) THEN "0" ELSE DigitStr(DecDigits(v))

\* a whole number below 2^20 as an integer
IntVal(v) == v[0] + 1024 * v[1]

\* num/den rounded to a whole number, ties to even
RoundDiv(num, den) ==
    LET q == num \div den
        r == num % den
    IN  IF 2 * r > den \/ (2 * r = den /\ q % 2 = 1) THEN q + 1 ELSE q

RECURSIVE Pow10(_)
Pow10(k) == IF k = 0 THEN 1 ELSE 10 * Pow10(k - 1)

RECURSIVE DigitsVal(_)
DigitsVal(ds) == IF ds = <<>> THEN 0 ELSE 10 * DigitsVal(SubSeq(ds, 1, Len(ds) - 1)) + ds[Len(ds)]

\* format!("{: >w}", s)
RECURSIVE PadLeft(_, _)
PadLeft(s, w) == IF Len(s) >= w THEN s ELSE PadLeft(" " \o s, w)

RECURSIVE ZeroPad(_, _)
ZeroPad(s, w) == IF Len(s) >= w THEN s ELSE ZeroPad("0" \o s, w)

\* format!("{:.0}", n) for a whole n
Fmt0(n) == DecStr(n.int)

\* format!("{:.2}", n) for an n with a fraction (n < 2^20)
Fmt2(n) ==
    LET h == RoundDiv(n.frac * 100, 1024)
        w == IF h = 100 THEN IntVal(n.int) + 1 ELSE IntVal(n.int)
    IN  ToString(w) \o "." \o ZeroPad(ToString(h % 100), 2)

\* format!("{:.4E}", n) for n >= 1: five significant digits
FmtExp4(n) ==
    LET ds   == DecDigits(n.int)
        len  == Len(ds)
        m0   == IF len > 5
                THEN LET rest == SubSeq(ds, 6, len)
                         up   == \/ rest[1] > 5
                                 \/ /\ rest[1] = 5
                                    /\ \/ \E i \in 2..Len(rest) : rest[i] # 0
                                       \/ ds[5] % 2 = 1
                     IN  DigitsVal(SubSeq(ds, 1, 5)) + (IF up THEN 1 ELSE 0)
                ELSE IntVal(n.int) * Pow10(5 - len)
                       + RoundDiv(n.frac * Pow10(5 - len), 1024)
        over == m0 >= 100000
        m    == IF over THEN m0 \div 10 ELSE m0
        e    == IF over THEN len ELSE len - 1
    IN  ToString(m \div 10000) \o "." \o ZeroPad(ToString(m % 10000), 4)
          \o "E" \o ToString(e)

\* the closure create_str of size_as_str
create_str(human_readable, n, unit) ==
    LET str_sz == IF n.frac = 0 THEN Fmt0(n) \o unit ELSE Fmt2(n) \o unit
    IN  IF human_readable
        THEN IF Len(str_sz) < 9
             THEN " [" \o PadLeft(str_sz, 8) \o "]"
             ELSE " [" \o PadLeft(FmtExp4(n), 8) \o unit \o "]"
        ELSE IF Len(str_sz) < 12
             THEN " [" \o PadLeft(str_sz, 11) \o "]"
             ELSE " [" \o PadLeft(FmtExp4(n), 11) \o unit \o "]"

size_as_str(human_readable, sz) ==
    IF ~human_readable THEN create_str(human_readable, AsF64(sz), "")
    ELSE IF Gt(sz, PB_SIZE) THEN create_str(human_readable, DivF64(sz, 6), "PB")
    ELSE IF Gt(sz, EB_SIZE) THEN create_str(human_readable, DivF64(sz, 5), "EB")
    ELSE IF Gt(sz, TB_SIZE) THEN create_str(human_readable, DivF64(sz, 4), "TB")
    ELSE IF Gt(sz, GB_SIZE) THEN create_str(human_readable, DivF64(sz, 3), "TB")
    ELSE IF Gt(sz, MB_SIZE) THEN create_str(human_readable, DivF64(sz, 2), "MB")
    ELSE IF Gt(sz, KB_SIZE) THEN create_str(human_readable, DivF64(sz, 1), "KB")
    ELSE create_str(human_readable, AsF64(sz), "")

(***************************************************************************)
(* aldar.rs: glyph sets and the indent stack.                              *)
(***************************************************************************)
\* the box-drawing characters are written ":" (U+2502), "L" (U+2514), "=" (U+2500)
\* and "T" (U+251C): one character each, as chars().count() counts them
UNICODE_GLYPHSET == [pipe |-> ":", last |-> "L==", item |-> "T=="]
\* the grave accent of the ASCII glyph for a last entry is written "'"
ASCII_GLYPHSET == [pipe |-> "|", last |-> "'--", item |-> "|--"]

\* String::from_utf8(vec![b' '; n])
RECURSIVE Spaces(_)
Spaces(n) == IF n = 0 THEN "" ELSE " " \o Spaces(n - 1)

do_indent(a, ind, is_last) ==
    IF is_last
    THEN Append(ind, Spaces(a.sz_last))
    ELSE Append(ind, a.glyphs.pipe \o Spaces(a.sz_item))

\* variant of do_unindent: the fragment is left on the stack
do_unindent_NoPop(ind) == ind

do_unindent(ind) == IF ind = <<>> THEN ind ELSE SubSeq(ind, 1, Len(ind) - 1)

(***************************************************************************)
(* main.rs: the command line, and the Aldar value main builds from it.     *)
(***************************************************************************)
Sub(lit) == [k |-> "sub", lit |-> lit]
Full(lit) == [k |-> "full", lit |-> lit]
Bad == [k |-> "bad", lit |-> <<>>]

\* the display options come in two profiles
Profiles ==
    {[ascii |-> FALSE, print_fullpath |-> FALSE, size |-> FALSE, human_readable |-> FALSE,
      ignore_case |-> FALSE, dir_only |-> FALSE, replace_nonprintable |-> FALSE,
      no_colors |-> FALSE, output |-> None],
     [ascii |-> TRUE, print_fullpath |-> TRUE, size |-> TRUE, human_readable |-> TRUE,
      ignore_case |-> TRUE, dir_only |-> TRUE, replace_nonprintable |-> TRUE,
      no_colors |-> FALSE, output |-> Some("file")]}

Levels == {None} \cup {Some(l) : l \in 0..MaxLevel}

MkArgs(prof, all, lvl, inc, exc) ==
    [all_files |-> all, dir_only |-> prof.dir_only, exclude_pattern |-> exc,
     include_pattern |-> inc, ignore_case |-> prof.ignore_case, level |-> lvl,
     print_fullpath |-> prof.print_fullpath, human_readable |-> prof.human_readable,
     size |-> prof.size, replace_nonprintable |-> prof.replace_nonprintable,
     output |-> prof.output, ascii |-> prof.ascii, no_colors |-> prof.no_colors,
     path |-> RootPath]

\* command lines whose patterns compile and whose output can be opened
ValidArgs ==
    {MkArgs(prof, all, lvl, inc, exc) :
        prof \in Profiles, all \in BOOLEAN, lvl \in Levels,
        inc \in {None, Some({Sub(<<"a">>)})},
        exc \in {None, Some({Sub(<<"n">>)}), Some({Full(<<"n">>)})}}

\* command lines with a pattern that does not compile or an output file that
\* cannot be created
InvalidArgs ==
    {[MkArgs(prof, FALSE, None, inc, exc) EXCEPT
         !.output = IF bad_out THEN Some("uncreatable") ELSE @] :
        prof \in Profiles,
        inc \in {None, Some({Sub(<<"a">>)}), Some({Bad})},
        exc \in {None, Some({Sub(<<"n">>)}), Some({Bad, Sub(<<"n">>)})},
        bad_out \in BOOLEAN}
    \ ValidArgs

\* Aldar::new()
AldarNew ==
    [show_hidden_files |-> FALSE, dir_only |-> FALSE, ignore_case |-> FALSE, level |-> -1,
     path |-> RootPath, glyphs |-> UNICODE_GLYPHSET, print_fullpath |-> FALSE,
     print_size |-> FALSE, human_readable |-> FALSE, replace_nonprintables |-> FALSE,
     exclude_pattern |-> None, include_pattern |-> None,
     sz_item |-> Len(UNICODE_GLYPHSET.item), sz_last |-> Len(UNICODE_GLYPHSET.last) + 1]

use_glyphset(a, glyphs) ==
    [a EXCEPT !.glyphs = glyphs,
              !.sz_item = Len(UNICODE_GLYPHSET.item),
              !.sz_last = Len(UNICODE_GLYPHSET.last) + 1]

use_max_level(a, lvl) == [a EXCEPT !.level = lvl]

\* the builder calls of main, in order
Configure(a, ar) ==
    LET a1 == [a EXCEPT !.path = ar.path, !.show_hidden_files = ar.all_files,
                        !.dir_only = ar.dir_only, !.ignore_case = ar.ignore_case]
        a2 == use_glyphset(a1, IF ar.ascii THEN ASCII_GLYPHSET ELSE UNICODE_GLYPHSET)
        a3 == use_max_level(a2, IF ar.level = None THEN -1 ELSE Unwrap(ar.level))
    IN  [a3 EXCEPT !.print_fullpath = ar.print_fullpath, !.print_size = ar.size,
                   !.human_readable = ar.human_readable,
                   !.replace_nonprintables = ar.replace_nonprintable,
                   !.include_pattern = ar.include_pattern,
                   !.exclude_pattern = ar.exclude_pattern]

\* colored::control::set_override(false) was not called
ColorsOn(ar) == ~(ar.no_colors \/ ar.output # None)

(***************************************************************************)
(* aldar.rs: fetch_directory.                                              *)
(***************************************************************************)
\* the closure given to filter_map: "Some" keeps the entry, "None" drops it,
\* "panic" is the unwrap() of a file name that is not text
FilterMap(e, show_hidden, inc, exc) ==
    IF e.kind = "err" THEN "None"
    ELSE IF ~show_hidden /\ is_hidden(e) THEN "None"
    ELSE IF ~is_dir(e)
         THEN IF inc # None /\ ~IsText(e.name) THEN "panic"
              ELSE IF inc # None /\ ~is_match(Unwrap(inc), e.name) THEN "None"
              ELSE IF exc # None /\ ~IsText(e.name) THEN "panic"
              ELSE IF exc # None /\ is_match(Unwrap(exc), e.name) THEN "None"
              ELSE "Some"
         ELSE "Some"

\* variant of DirExcluded: the directory's path is not checked
DirExcluded_Never(exc, working_dir) == FALSE

\* the check of the directory's own path, before read_dir
DirExcluded(exc, working_dir) == exc # None /\ is_match(Unwrap(exc), PathStr(working_dir))

(***************************************************************************)
(* aldar.rs: print_entry.  A line of output is a record; an entry line     *)
(* holds the vector print_entry concatenates (cols), the name after it and *)
(* its colour; node and dir say which entry of which directory it is.      *)
(***************************************************************************)
Line(t, cols, name, color, node, dir) ==
    [t |-> t, cols |-> cols, name |-> name, color |-> color, node |-> node, dir |-> dir,
     dirs |-> 0, files |-> 0]

\* fsutil.rs get_full_rel_path, the base being the canonical root: the target of
\* a symbolic link lies outside the root
full_rel_path(e) ==
    IF e.kind = "linkdir" THEN <<"?">>
    ELSE IF ~PathIsText(e.path) THEN <<"?">>
    ELSE PathStr(Tail(e.path))

Colour(e, on) ==
    IF ~on THEN "plain"
    ELSE IF is_dir(e) /\ is_hidden(e) THEN "purple"
    ELSE IF is_dir(e) THEN "blue"
    ELSE IF is_executable(e) THEN "magenta"
    ELSE IF is_hidden(e) THEN "cyan"
    ELSE "plain"

\* the lines print_entry writes for entry e: one, or none
print_entry(a, ind, e, last, colors) ==
    LET i1 == Append(ind, IF last THEN a.glyphs.last ELSE a.glyphs.item)
        i2 == IF a.print_size THEN Append(i1, size_as_str(a.human_readable, size(e))) ELSE i1
    IN  IF ~IsText(e.name) THEN <<>>
        ELSE <<Line("entry", i2, IF a.print_fullpath THEN full_rel_path(e) ELSE e.name,
                    Colour(e, colors), e.id, Parent(e.id))>>

(***************************************************************************)
(* aldar.rs: show_dir and run; main.rs: main.                              *)
(***************************************************************************)
Frame(dir, path, lvl) ==
    [dir |-> dir, path |-> path, lvl |-> lvl, entries |-> <<>>, i |-> 1, st |-> "enter"]

Top == stack[Len(stack)]

\* variant of BailOut: the limit is applied one level too late
BailOut_OneTooDeep(level, lvl) == level > -1 /\ lvl > level + 1

\* "Bail out if level is reached"
BailOut(level, lvl) == level > -1 /\ lvl > level

\* variant of ResultDiscarded: `?` in place of `.ok()`, an Err ends the caller too
ResultDiscarded_Propagate(res) == res = "Ok"

\* `.ok()` on the result of the recursive call: the caller goes on whatever it was
ResultDiscarded(res) == res \in {"Ok", "Err"}

\* the calls and the indent stack once the innermost call has returned res
RECURSIVE Unwind(_, _, _)
Unwind(stk, ind, res) ==
    LET rest == SubSeq(stk, 1, Len(stk) - 1)
    IN  IF rest = <<>> THEN <<rest, ind>>
        ELSE IF ResultDiscarded(res)
             THEN <<[rest EXCEPT ![Len(rest)].i = @ + 1], do_unindent(ind)>>
             ELSE Unwind(rest, ind, res)

\* "\n{} directories, {} files"
Summary(dirs, files) ==
    [Line("summary", <<>>, <<>>, "plain", Root, Root) EXCEPT !.dirs = dirs, !.files = files]

\* what happens when the innermost show_dir returns res: its caller goes on, or,
\* when it was the call of run, run writes the summary and returns Ok
Return(res) ==
    LET u == Unwind(stack, indent, res)
    IN  /\ stack' = u[1]
        /\ indent' = u[2]
        /\ IF u[1] = <<>>
           THEN /\ output' = Append(output, Summary(proc_dirs, proc_files))
                /\ result' = "Ok"
                /\ pc' = "returned"
           ELSE UNCHANGED <<output, result, pc>>

Init ==
    /\ \/ args \in ValidArgs /\ fs \in [t : Trees, unreadable : Unreadables]
       \/ /\ args \in InvalidArgs
          /\ fs \in [t : {CHOOSE t \in Trees : TRUE}, unreadable : {{}}]
    /\ aldar = AldarNew
    /\ include_matcher = None
    /\ exclude_matcher = None
    /\ proc_dirs = 0
    /\ proc_files = 0
    /\ indent = <<>>
    /\ output = <<>>
    /\ stack = <<>>
    /\ pc = "main"
    /\ result = "none"
    /\ exit = -1
    /\ reported = FALSE
    /\ runs = 0
    /\ listed = [d \in {Root} \cup Nodes |-> None]
    /\ cmpIn = {}
    /\ cmpOut = <<>>
    /\ szIn = None
    /\ szOut = None

\* main.rs 114-124: File::create fails
MainOutputFails ==
    /\ pc = "main"
    /\ args.output = Some("uncreatable")
    /\ reported' = TRUE
    /\ exit' = 1
    /\ pc' = "exited"
    /\ UNCHANGED <<pureVars, args, fs, aldar, include_matcher, exclude_matcher, proc_dirs, proc_files,
                   indent, output, stack, result, runs, listed>>

\* main.rs 96-137
MainConfigure ==
    /\ pc = "main"
    /\ args.output # Some("uncreatable")
    /\ aldar' = Configure(aldar, args)
    /\ pc' = "ready"
    /\ UNCHANGED <<pureVars, args, fs, include_matcher, exclude_matcher, proc_dirs, proc_files,
                   indent, output, stack, result, exit, reported, runs, listed>>

\* aldar.rs 202-236: run, up to its call of show_dir
Run ==
    /\ pc \in {"ready", "returned"}
    /\ runs < MaxRuns
    /\ runs' = runs + 1
    /\ proc_dirs' = 0
    /\ proc_files' = 0
    /\ LET inc == IF aldar.include_pattern = None THEN None
                  ELSE Build(Unwrap(aldar.include_pattern), aldar.ignore_case)
           exc == IF aldar.exclude_pattern = None THEN None
                  ELSE Build(Unwrap(aldar.exclude_pattern), aldar.ignore_case)
           inc_err == aldar.include_pattern # None /\ inc = None
           exc_err == aldar.exclude_pattern # None /\ exc = None
       IN  /\ include_matcher' =
                 IF aldar.include_pattern # None /\ ~inc_err THEN inc ELSE include_matcher
           /\ exclude_matcher' =
                 IF aldar.exclude_pattern # None /\ ~inc_err /\ ~exc_err THEN exc
                 ELSE exclude_matcher
           /\ IF inc_err \/ exc_err
              THEN /\ result' = "Err"
                   /\ pc' = "returned"
                   /\ UNCHANGED <<output, stack, listed>>
              ELSE /\ result' = "none"
                   /\ pc' = "walk"
                   /\ output' = Append(output,
                          Line("header", <<>>, PathStr(aldar.path),
                               IF ColorsOn(args) THEN "blue" ELSE "plain", Root, Root))
                   /\ stack' = <<Frame(Root, aldar.path, 0)>>
                   /\ listed' = [d \in {Root} \cup Nodes |-> None]
    /\ UNCHANGED <<pureVars, args, fs, aldar, indent, exit, reported>>

\* aldar.rs 250-252
ShowDirBail ==
    /\ pc = "walk"
    /\ Top.st = "enter"
    /\ BailOut(aldar.level, Top.lvl)
    /\ Return("Ok")
    /\ UNCHANGED <<pureVars, args, fs, aldar, include_matcher, exclude_matcher, proc_dirs, proc_files,
                   exit, reported, runs, listed>>

\* aldar.rs 273-277: the directory's own path matches the exclude set
FetchExcluded ==
    /\ pc = "walk"
    /\ Top.st = "enter"
    /\ ~BailOut(aldar.level, Top.lvl)
    /\ DirExcluded(exclude_matcher, Top.path)
    /\ stack' = [stack EXCEPT ![Len(stack)].st = "loop", ![Len(stack)].entries = <<>>]
    /\ listed' = [listed EXCEPT ![Top.dir] = Some(<<>>)]
    /\ UNCHANGED <<pureVars, args, fs, aldar, include_matcher, exclude_matcher, proc_dirs, proc_files,
                   indent, output, pc, result, exit, reported, runs>>

\* aldar.rs 279: read_dir fails, `?` returns the error from show_dir
FetchErr ==
    /\ pc = "walk"
    /\ Top.st = "enter"
    /\ ~BailOut(aldar.level, Top.lvl)
    /\ ~DirExcluded(exclude_matcher, Top.path)
    /\ Top.dir \in fs.unreadable
    /\ Return("Err")
    /\ UNCHANGED <<pureVars, args, fs, aldar, include_matcher, exclude_matcher, proc_dirs, proc_files,
                   exit, reported, runs, listed>>

\* aldar.rs 292, 298: unwrap() of a file name that is not text panics; the
\* process ends with status 101
FetchPanic ==
    /\ pc = "walk"
    /\ Top.st = "enter"
    /\ ~BailOut(aldar.level, Top.lvl)
    /\ ~DirExcluded(exclude_matcher, Top.path)
    /\ Top.dir \notin fs.unreadable
    /\ \E e \in ReadDir(fs.t, Top.dir) :
           FilterMap(e, aldar.show_hidden_files, include_matcher, exclude_matcher) = "panic"
    /\ pc' = "exited"
    /\ exit' = 101
    /\ UNCHANGED <<pureVars, args, fs, aldar, include_matcher, exclude_matcher, proc_dirs, proc_files,
                   indent, output, stack, result, reported, runs, listed>>

\* aldar.rs 279-326: the children are read, filtered, counted and sorted
FetchOk ==
    /\ pc = "walk"
    /\ Top.st = "enter"
    /\ ~BailOut(aldar.level, Top.lvl)
    /\ ~DirExcluded(exclude_matcher, Top.path)
    /\ Top.dir \notin fs.unreadable
    /\ LET all  == ReadDir(fs.t, Top.dir)
           kept == {e \in all : FilterMap(e, aldar.show_hidden_files, include_matcher,
                                         exclude_matcher) = "Some"}
       IN  /\ \A e \in all : FilterMap(e, aldar.show_hidden_files, include_matcher,
                                       exclude_matcher) # "panic"
           /\ proc_dirs' = proc_dirs + Cardinality({e \in kept : is_dir(e)})
           /\ proc_files' = proc_files + Cardinality({e \in kept : ~is_dir(e)})
           /\ \E sorted \in SortBy(kept) :
                 LET entries == [i \in DOMAIN sorted |-> sorted[i].id]
                 IN  /\ stack' = [stack EXCEPT ![Len(stack)].st = "loop",
                                               ![Len(stack)].entries = entries]
                     /\ listed' = [listed EXCEPT ![Top.dir] = Some(entries)]
    /\ UNCHANGED <<pureVars, args, fs, aldar, include_matcher, exclude_matcher, indent, output, pc,
                   result, exit, reported, runs>>

\* aldar.rs 257-267: one turn of the loop of show_dir, up to the recursive call
PrintEntry ==
    /\ pc = "walk"
    /\ Top.st = "loop"
    /\ Top.i <= Len(Top.entries)
    /\ LET e    == DirEntry(fs.t, Top.entries[Top.i])
           last == Len(Top.entries) = Top.i
       IN  /\ output' = output \o print_entry(aldar, indent, e, last, ColorsOn(args))
           /\ IF is_dir(e) /\ PathIsText(e.path)
              THEN /\ indent' = do_indent(aldar, indent, last)
                   /\ stack' = Append(stack, Frame(e.id, e.path, Top.lvl + 1))
              ELSE /\ indent' = indent
                   /\ stack' = [stack EXCEPT ![Len(stack)].i = @ + 1]
    /\ UNCHANGED <<pureVars, args, fs, aldar, include_matcher, exclude_matcher, proc_dirs, proc_files,
                   pc, result, exit, reported, runs, listed>>

\* aldar.rs 269: the loop is over, show_dir returns Ok
ShowDirDone ==
    /\ pc = "walk"
    /\ Top.st = "loop"
    /\ Top.i > Len(Top.entries)
    /\ Return("Ok")
    /\ UNCHANGED <<pureVars, args, fs, aldar, include_matcher, exclude_matcher, proc_dirs, proc_files,
                   exit, reported, runs, listed>>

\* main.rs 139-142: an Err of run is printed; main returns
MainExit ==
    /\ pc = "returned"
    /\ reported' = (reported \/ result = "Err")
    /\ exit' = 0
    /\ pc' = "exited"
    /\ UNCHANGED <<pureVars, args, fs, aldar, include_matcher, exclude_matcher, proc_dirs, proc_files,
                   indent, output, stack, result, runs, listed>>

Next ==
    \/ MainOutputFails
    \/ MainConfigure
    \/ Run
    \/ ShowDirBail
    \/ FetchExcluded
    \/ FetchErr
    \/ FetchPanic
    \/ FetchOk
    \/ PrintEntry
    \/ ShowDirDone
    \/ MainExit

Spec == Init /\ [][Next]_vars

(***************************************************************************)
(* Reading the state.                                                      *)
(***************************************************************************)
Dirs == {Root} \cup Nodes

\* the lines of the run in progress or last finished: from its header on
HeaderAt == {i \in DOMAIN output : output[i].t = "header"}
LastHeader == CHOOSE i \in HeaderAt : \A j \in HeaderAt : j <= i
CurLines == IF HeaderAt = {} THEN <<>> ELSE SubSeq(output, LastHeader, Len(output))

\* the lines of this run written for entry n, and those written directly under d
LinesFor(n) == {i \in DOMAIN CurLines : CurLines[i].t = "entry" /\ CurLines[i].node = n}
LinesUnder(d) == {i \in DOMAIN CurLines : CurLines[i].t = "entry" /\ CurLines[i].dir = d}

OnStack(d) == \E k \in DOMAIN stack : stack[k].dir = d
FrameOf(d) == stack[CHOOSE k \in DOMAIN stack : stack[k].dir = d]

\* show_dir(d) has returned its child list and finished its loop
Finished(d) == listed[d] # None /\ ~OnStack(d)

\* the k-th entry of d's child list has had its turn of the loop, recursive call included
Processed(d, k) ==
    /\ listed[d] # None
    /\ k \in 1..Len(Unwrap(listed[d]))
    /\ OnStack(d) => FrameOf(d).i > k

PatternsCompile ==
    /\ aldar.include_pattern # None => Build(Unwrap(aldar.include_pattern), FALSE) # None
    /\ aldar.exclude_pattern # None => Build(Unwrap(aldar.exclude_pattern), FALSE) # None

(***************************************************************************)
(* C1  Depth limiting.  With a limit L >= 0 no directory deeper than L is   *)
(* listed and no line is written for an entry of such a directory; a        *)
(* directory entry show_dir has dealt with was descended into if and only   *)
(* if its depth is within the limit (always, when the limit is -1), its     *)
(* own line being written under its parent either way; and every entry of   *)
(* a directory within the limit has its line.                               *)
(***************************************************************************)
WithinLimit(d) == aldar.level < 0 \/ Depth(d) <= aldar.level

RECURSIVE Above(_)
Above(d) == IF d = Root THEN {Root} ELSE {d} \cup Above(Parent(d))

NameOfDir(d) == IF d = Root THEN RootPath[1] ELSE fs.t[d].name

NameExcluded(d) ==
    exclude_matcher # None /\ is_match(Unwrap(exclude_matcher), NameOfDir(d))

PathExcluded(d) ==
    exclude_matcher # None /\ is_match(Unwrap(exclude_matcher), PathStr(PathOf(fs.t, d)))

\* C2 as claimed: no line is written for anything inside a directory whose name
\* the exclude set matches
C2_NameExcluded_NoLines ==
    \A i \in DOMAIN output :
        output[i].t = "entry" => \A d \in Above(output[i].dir) : ~NameExcluded(d)

\* C2 as amended: no line is written for anything inside a directory whose path,
\* as text, the exclude set matches; listing such a directory gives the empty
\* child list, also when it cannot be read; its own line is still written
C2_PathExcluded_NoLines ==
    /\ \A i \in DOMAIN output :
          output[i].t = "entry" => \A d \in Above(output[i].dir) : ~PathExcluded(d)
    /\ \A d \in Dirs : listed[d] # None /\ PathExcluded(d) => listed[d] = Some(<<>>)
    /\ \A d \in Dirs : \A k \in 1..Cardinality(Nodes) :
          Processed(d, k) =>
             LET e == DirEntry(fs.t, Unwrap(listed[d])[k])
             IN  is_dir(e) /\ PathIsText(e.path) /\ WithinLimit(e.id) /\ PathExcluded(e.id)
                    => listed[e.id] = Some(<<>>) /\ LinesFor(e.id) # {}

\* the directory "n" is excluded by the pattern n, holds a file the include set
\* matches, is written itself and nothing under it is
C2_Witness ==
    /\ pc = "returned" /\ result = "Ok"
    /\ PathExcluded(1)
    /\ include_matcher # None /\ is_match(Unwrap(include_matcher), fs.t[4].name)
    /\ listed[1] = Some(<<>>)
    /\ LinesFor(1) # {}
    /\ LinesUnder(1) = {}

(***************************************************************************)
(* C4  For every directory show_dir has finished with, the number of lines *)
(* written directly under it is the length of its child list.              *)
(***************************************************************************)
C4_OneLinePerChild ==
    \A d \in Dirs :
        Finished(d) => Cardinality(LinesUnder(d)) = Len(Unwrap(listed[d]))

(***************************************************************************)
(* C5  Indent stack.  A line of a directory at depth d is written with d   *)
(* fragments; during the walk the stack holds one fragment per call of     *)
(* show_dir below the root's; all lines of one directory carry the same    *)
(* fragments, and lines of a subdirectory carry those of its parent        *)
(* first; the stack is empty whenever no call of show_dir is active.       *)
(***************************************************************************)
\* the indent fragments a line was written with
Fragments(l) == SubSeq(l.cols, 1, Len(l.cols) - 1 - (IF aldar.print_size THEN 1 ELSE 0))

C5_IndentStack ==
    /\ \A i \in DOMAIN output :
          output[i].t = "entry" => Len(Fragments(output[i])) = Depth(output[i].dir)
    /\ pc = "walk" => Len(indent) = Len(stack) - 1
    /\ stack = <<>> => indent = <<>>
    /\ \A i, j \in DOMAIN CurLines :
          LET a == CurLines[i]
              b == CurLines[j]
          IN  a.t = "entry" /\ b.t = "entry" =>
                 /\ a.dir = b.dir => Fragments(a) = Fragments(b)
                 /\ b.dir # Root /\ a.dir = Parent(b.dir) =>
                       Fragments(a) = SubSeq(Fragments(b), 1, Len(Fragments(a)))

\* level 1: the call for the directory at depth 2 bailed out, the call for the
\* unreadable one failed, and their later siblings were written afterwards
C5_Witness ==
    /\ pc = "returned" /\ result = "Ok"
    /\ \/ aldar.level = 1 /\ fs.unreadable = {} /\ fs.t[3].kind = "dir"
       \/ aldar.level = -1 /\ fs.unreadable = {3} /\ fs.t[3].kind = "dir"
    /\ LinesFor(3) # {} /\ LinesFor(4) # {} /\ LinesFor(2) # {}
    /\ LinesUnder(3) = {}
    /\ indent = <<>>

(***************************************************************************)
(* C8  When a pattern does not compile or the output file cannot be        *)
(* created, the error is reported and the exit status is not zero; a run   *)
(* that returned Ok ends with status zero.                                 *)
(***************************************************************************)
C8_FatalExitNonZero ==
    pc = "exited" =>
        /\ result = "Err" \/ args.output = Some("uncreatable") => reported /\ exit # 0
        /\ result = "Ok" => exit = 0

(***************************************************************************)
(* C9  A directory that cannot be read.  No line is written under it; the  *)
(* caller of its show_dir goes on exactly as after an empty directory;     *)
(* every entry of every directory show_dir finished with has its line;     *)
(* run returns Ok, with the summary as the last line, whenever the         *)
(* patterns compile.                                                       *)
(***************************************************************************)
C9_ReadFailure ==
    /\ \A i \in DOMAIN output : output[i].t = "entry" => output[i].dir \notin fs.unreadable
    /\ \A d \in fs.unreadable : listed[d] # None => listed[d] = Some(<<>>)
    /\ pc = "walk" /\ Top.st = "enter" /\ Top.dir \in fs.unreadable =>
          Unwind(stack, indent, "Err") = Unwind(stack, indent, "Ok")
    /\ \A d \in Dirs : \A k \in 1..Cardinality(Nodes) :
          Finished(d) /\ k <= Len(Unwrap(listed[d])) =>
             LET e == DirEntry(fs.t, Unwrap(listed[d])[k])
             IN  IsText(e.name) => LinesFor(e.id) # {}
    /\ pc = "returned" =>
          /\ result = "Ok" <=> PatternsCompile
          /\ result = "Ok" => output[Len(output)].t = "summary"

\* the directory "n" cannot be read: it has its line, nothing under it, and its
\* later sibling is written
C9_Witness ==
    /\ pc = "returned" /\ result = "Ok"
    /\ fs.unreadable = {1}
    /\ listed[1] = None
    /\ \E i \in LinesFor(1) : \E j \in LinesFor(2) : i < j
    /\ LinesUnder(1) = {}

(***************************************************************************)
(* C10  The filter of fetch_directory: every entry is either rejected or   *)
(* accepted, by the three rules, and the child list is the accepted        *)
(* entries.                                                                *)
(***************************************************************************)
ClaimAccepts(e) ==
    /\ e.kind # "err"
    /\ ~(~aldar.show_hidden_files /\ is_hidden(e))
    /\ \/ is_dir(e)
       \/ /\ include_matcher = None \/ is_match(Unwrap(include_matcher), e.name)
          /\ exclude_matcher = None \/ ~is_match(Unwrap(exclude_matcher), e.name)

C10_FilterDecision ==
    /\ exit # 101
    /\ \A d \in Dirs :
          listed[d] # None /\ ~PathExcluded(d) =>
             {Unwrap(listed[d])[k] : k \in DOMAIN Unwrap(listed[d])}
                = {e.id : e \in {x \in ReadDir(fs.t, d) : ClaimAccepts(x)}}

(***************************************************************************)
(* The sort of fetch_directory on its own: three entries of one directory, *)
(* of any kinds, are handed to sort_by.                                    *)
(***************************************************************************)
SiblingNames ==
    {<<<<"A">>, <<"a">>, <<"n">>>>, <<<<"a">>, <<"m">>, <<"n">>>>, <<<<"A">>, <<"m">>, <<"n">>>>}
SiblingKinds == {"dir", "file", "linkdir", "other"}

Sibling(kind, name) ==
    [id |-> 0, kind |-> kind, name |-> name, path |-> Append(RootPath, name),
     size |-> <<1, 0, 0>>, exec |-> FALSE]

\* the entries of a directory have different names
SiblingSets ==
    {{Sibling(k1, ns[1]), Sibling(k2, ns[2]), Sibling(k3, ns[3])} :
        k1 \in SiblingKinds, k2 \in SiblingKinds, k3 \in SiblingKinds, ns \in SiblingNames}

\* the variables of the walk while only a function is exercised
Idle ==
    /\ args = CHOOSE a \in ValidArgs : a.level = None
    /\ fs = [t |-> CHOOSE t \in Trees : TRUE, unreadable |-> {}]
    /\ include_matcher = None
    /\ exclude_matcher = None
    /\ proc_dirs = 0
    /\ proc_files = 0
    /\ indent = <<>>
    /\ output = <<>>
    /\ stack = <<>>
    /\ result = "none"
    /\ exit = -1
    /\ reported = FALSE
    /\ runs = 0
    /\ listed = [d \in {Root} \cup Nodes |-> None]

InitSort ==
    /\ Idle
    /\ aldar = AldarNew
    /\ pc = "sort"
    /\ cmpIn \in SiblingSets
    /\ cmpOut = <<>>
    /\ szIn = None
    /\ szOut = None

\* aldar.rs 314-324: files.sort_by(..)
SortSiblings ==
    /\ pc = "sort"
    /\ cmpOut' \in SortBy(cmpIn)
    /\ pc' = "sorted"
    /\ UNCHANGED <<walkVars, cmpIn, szIn, szOut>>

NextSort == SortSiblings

SpecSort == InitSort /\ [][NextSort]_vars

(***************************************************************************)
(* C3  The comparator is a strict total order on every set of siblings:    *)
(* two different entries are never Equal, Less one way is Greater the      *)
(* other way, Less is transitive, an entry classified as a directory comes *)
(* before every file, entries of the same kind are ordered by path; and    *)
(* the sorted vector is in that order.                                     *)
(***************************************************************************)
C3_StrictTotalOrder ==
    /\ \A a, b \in cmpIn :
          /\ a # b => Compare(a, b) # "Equal"
          /\ Compare(a, b) = "Less" <=> Compare(b, a) = "Greater"
          /\ is_dir(a) /\ b.kind = "file" => Compare(a, b) = "Less"
          /\ a.kind = b.kind => Compare(a, b) = CmpPath(a.path, b.path)
    /\ \A a, b, c \in cmpIn :
          Compare(a, b) = "Less" /\ Compare(b, c) = "Less" => Compare(a, c) = "Less"
    /\ pc = "sorted" =>
          \A i, j \in DOMAIN cmpOut :
              /\ i < j => Compare(cmpOut[i], cmpOut[j]) = "Less"
              /\ cmpOut[i].kind = "file" /\ is_dir(cmpOut[j]) => j < i

(***************************************************************************)
(* size_as_str on its own: two sizes are formatted by an Aldar with the    *)
(* human_readable flag either way.                                         *)
(***************************************************************************)
\* the sizes drawn: 0, and hi * 1024^k + lo * 1024^(k-1) below 2^64
SizeInputs ==
    {<<0, 0, 0>>}
      \cup {<<hi, 0, 0>> : hi \in {1, 2, 1023}}
      \cup {<<hi, lo, k>> : hi \in {1, 2, 1023}, lo \in {0, 1, 512}, k \in 1..5}
      \cup {<<hi, lo, 6>> : hi \in {1, 2}, lo \in {0, 1, 512}}

InitSize ==
    /\ Idle
    /\ aldar \in {[AldarNew EXCEPT !.print_size = TRUE, !.human_readable = h] : h \in BOOLEAN}
    /\ pc = "size"
    /\ cmpIn = {}
    /\ cmpOut = <<>>
    /\ szIn \in {Some(<<a, b>>) : a \in SizeInputs, b \in SizeInputs}
    /\ szOut = None

\* aldar.rs 393-444: size_as_str on each of the two sizes
Format ==
    /\ pc = "size"
    /\ szOut' = Some(<<size_as_str(aldar.human_readable, size([size |-> Unwrap(szIn)[1]])),
                       size_as_str(aldar.human_readable, size([size |-> Unwrap(szIn)[2]]))>>)
    /\ pc' = "sized"
    /\ UNCHANGED <<walkVars, cmpIn, cmpOut, szIn>>

NextSize == Format

SpecSize == InitSize /\ [][NextSize]_vars

\* the first size drawn, as a u64, and its string once formatted
SzA == size([size |-> Unwrap(szIn)[1]])
SzB == size([size |-> Unwrap(szIn)[2]])
OutA == Unwrap(szOut)[1]
OutB == Unwrap(szOut)[2]

(***************************************************************************)
(* C6  Sizes at the thresholds, human-readable.                            *)
(***************************************************************************)
\* C6 as claimed: 1023 is written as 1023, 1024 as 1KB, 1048576 as 1MB
C6_Thresholds_Claimed ==
    pc = "sized" /\ aldar.human_readable =>
        /\ SzA = U64(1023, 0, 0) => OutA = " [    1023]"
        /\ SzA = U64(1, 0, 1) => OutA = " [     1KB]"
        /\ SzA = U64(1, 0, 2) => OutA = " [     1MB]"

\* C6 as amended: 1023 is written as 1023, 1024 as 1024 with no unit, 1048576
\* as 1024KB: a size equal to a threshold is written in the unit below
C6_Thresholds ==
    pc = "sized" /\ aldar.human_readable =>
        /\ SzA = U64(1023, 0, 0) => OutA = " [    1023]"
        /\ SzA = U64(1, 0, 1) => OutA = " [    1024]"
        /\ SzA = U64(1, 0, 2) => OutA = " [  1024KB]"

\* 1024 and 1048576 have been formatted
C6_Witness ==
    /\ pc = "sized" /\ aldar.human_readable
    /\ SzA = U64(1, 0, 1) /\ OutA = " [    1024]"
    /\ SzB = U64(1, 0, 2) /\ OutB = " [  1024KB]"

(***************************************************************************)
(* C7  Unit selection, human-readable: the number written is the size      *)
(* divided by the largest threshold it strictly exceeds, with that         *)
(* threshold's own suffix (none below 2^10); two sizes with different      *)
(* largest thresholds are never written as the same string.                *)
(***************************************************************************)
Thresholds == <<KB_SIZE, MB_SIZE, GB_SIZE, TB_SIZE, EB_SIZE, PB_SIZE>>
Suffixes == <<"KB", "MB", "GB", "TB", "EB", "PB">>

\* how many thresholds sz strictly exceeds
UnitRange(sz) == Cardinality({r \in DOMAIN Thresholds : Gt(sz, Thresholds[r])})

ClaimedStr(sz) ==
    IF UnitRange(sz) = 0 THEN create_str(TRUE, AsF64(sz), "")
    ELSE create_str(TRUE, DivF64(sz, UnitRange(sz)), Suffixes[UnitRange(sz)])

C7_UnitSelection ==
    pc = "sized" /\ aldar.human_readable =>
        /\ OutA = ClaimedStr(SzA)
        /\ UnitRange(SzA) # UnitRange(SzB) => OutA # OutB

(***************************************************************************)
(* Aldar used through its builder with a glyph set of the caller's:        *)
(* use_glyphset takes any Box<dyn Glyphs>.  A default Aldar is given a     *)
(* glyph set and run on the tree; with no patterns, no depth limit and     *)
(* every directory readable, show_dir neither bails out nor fails.         *)
(***************************************************************************)
\* two implementations of Glyphs besides the built-in ones, with glyphs of
\* two and of four characters
NARROW_GLYPHSET == [pipe |-> "!", last |-> "^-", item |-> "+-"]
WIDE_GLYPHSET == [pipe |-> "!", last |-> "^---", item |-> "+---"]

GlyphSets == {UNICODE_GLYPHSET, ASCII_GLYPHSET, NARROW_GLYPHSET, WIDE_GLYPHSET}

InitGlyph ==
    /\ args = CHOOSE a \in ValidArgs : a.level = None
    /\ fs \in [t : Trees, unreadable : {{}}]
    /\ aldar = AldarNew
    /\ include_matcher = None
    /\ exclude_matcher = None
    /\ proc_dirs = 0
    /\ proc_files = 0
    /\ indent = <<>>
    /\ output = <<>>
    /\ stack = <<>>
    /\ pc = "new"
    /\ result = "none"
    /\ exit = -1
    /\ reported = FALSE
    /\ runs = 0
    /\ listed = [d \in {Root} \cup Nodes |-> None]
    /\ cmpIn = {}
    /\ cmpOut = <<>>
    /\ szIn = None
    /\ szOut = None

\* aldar.rs 153-158: Aldar::new().use_glyphset(glyphs)
UseGlyphset ==
    /\ pc = "new"
    /\ \E g \in GlyphSets : aldar' = use_glyphset(aldar, g)
    /\ pc' = "ready"
    /\ UNCHANGED <<pureVars, args, fs, include_matcher, exclude_matcher, proc_dirs, proc_files,
                   indent, output, stack, result, exit, reported, runs, listed>>

NextGlyph ==
    \/ UseGlyphset
    \/ Run
    \/ FetchOk
    \/ PrintEntry
    \/ ShowDirDone

SpecGlyph == InitGlyph /\ [][NextGlyph]_vars

(***************************************************************************)
(* C11  Tree prefix.  A line for an entry at depth d is written with d     *)
(* fragments and then the terminal glyph: `last` of the active glyph set   *)
(* if the entry is the final element of its directory's child list, `item` *)
(* otherwise.  The k-th fragment is blank, as wide as the active `last`    *)
(* glyph plus one, if the ancestor directory at level k was the final      *)
(* element of its parent's child list; otherwise it is the active `pipe`   *)
(* glyph followed by as many blanks as the active `item` glyph has         *)
(* characters.                                                             *)
(***************************************************************************)
\* n is the final element of the child list of its directory
IsLastListed(n) ==
    LET l == Unwrap(listed[Parent(n)])
    IN  l # <<>> /\ l[Len(l)] = n

\* the directory at level k that the entries of directory d lie in
AncestorAt(d, k) == CHOOSE a \in Above(d) : Depth(a) = k

ClaimedFragment(a) ==
    IF IsLastListed(a)
    THEN Spaces(Len(aldar.glyphs.last) + 1)
    ELSE aldar.glyphs.pipe \o Spaces(Len(aldar.glyphs.item))

C11_TreePrefix ==
    \A i \in DOMAIN CurLines :
        LET l == CurLines[i]
            d == Depth(l.dir)
        IN  l.t = "entry" =>
               /\ Len(l.cols) = d + 1 + (IF aldar.print_size THEN 1 ELSE 0)
               /\ l.cols[d + 1] = IF IsLastListed(l.node) THEN aldar.glyphs.last
                                  ELSE aldar.glyphs.item
               /\ \A k \in 1..d : l.cols[k] = ClaimedFragment(AncestorAt(l.dir, k))

(***************************************************************************)
(* C12  Summary counters.  When run has returned Ok, the first time or     *)
(* again on the same Aldar, the last line written is the summary; its      *)
(* directory count is the number of directories in the child lists of the  *)
(* directories listed in this run, its file count the number of other      *)
(* entries in them; the two add up to the number of entry lines between    *)
(* the header and the summary; and nothing is counted inside a directory   *)
(* that is excluded, unreadable or beyond the depth limit.                 *)
(***************************************************************************)
\* the entries the filter accepted in this run: those of the child lists
Counted ==
    {n \in Nodes : listed[Parent(n)] # None
                     /\ \E k \in DOMAIN Unwrap(listed[Parent(n)]) : Unwrap(listed[Parent(n)])[k] = n}

EntryLines == {i \in DOMAIN CurLines : CurLines[i].t = "entry"}

C12_SummaryCounters ==
    pc = "returned" /\ result = "Ok" =>
        LET s == output[Len(output)]
        IN  /\ s.t = "summary"
            /\ s.dirs = Cardinality({n \in Counted : is_dir(DirEntry(fs.t, n))})
            /\ s.files = Cardinality({n \in Counted : ~is_dir(DirEntry(fs.t, n))})
            /\ s.dirs + s.files = Cardinality(EntryLines)
            /\ \A n \in Counted :
                  /\ Parent(n) \notin fs.unreadable
                  /\ ~PathExcluded(Parent(n))
                  /\ WithinLimit(Parent(n))

====
